---- MODULE Spec2Model ----
(***************************************************************************)
(* Model of the lambda-starship-user-stats report program                  *)
(* (src/datatypes.go): the Datastore kinds it reads, main's sequence of    *)
(* reports, newSession, session.commandAndErrors, errorTypeCount,          *)
(* variableHasNoValueCount, editorUse and getUIDs.                         *)
(*                                                                         *)
(* Text is modelled as a sequence of words (the words of the Go string,    *)
(* separated by single spaces); a regular expression is a sequence of      *)
(* word-level elements and matches a contiguous run of words.  A Go map    *)
(* is a function whose DOMAIN is the set of keys present; ranging over a   *)
(* map visits the keys in an order the runtime picks.  sort.Slice is       *)
(* modelled by its contract: it returns some permutation ordered by the    *)
(* comparator, with no promise about elements the comparator ties.         *)
(***************************************************************************)
EXTENDS Integers, Sequences, FiniteSets, TLC

VARIABLES
    errorStore,        \* Datastore kind "Error", in the order GetAll returns it
    commandStore,      \* Datastore kind "REPLCommand"
    editorStore,       \* Datastore kind "EditorContent"
    pc,                \* position of the program
    call,              \* the function entered last
    queryLog,          \* the Datastore calls issued by that function, in order
    lastErr,           \* the error value that function returned ("nil" when none)
    matchCnt,          \* main: matchCnt
    varsWithNoValue,   \* main: varsWithNoValue
    uids,              \* main: uids
    editorUseCount,    \* main: editorUseCount
    idx,               \* main: position of the range over uids (1-based)
    sess,              \* the session newSession returned last
    file,              \* the strings written to user-sessions.txt
    pairs,             \* what sess.commandAndErrors() returned
    lastRanking        \* the ranking the latest successful variableHasNoValueCount returned, in any run

vars == <<errorStore, commandStore, editorStore, pc, call, queryLog, lastErr,
          matchCnt, varsWithNoValue, uids, editorUseCount, idx, sess, file,
          pairs, lastRanking>>

\* ------------------------------------------------------------------ bounds
MaxErrors == 3        \* error records in a store of the aggregation inputs
MaxEvents == 3        \* records of one user in a store of the session inputs
MaxTs == 3            \* timestamps are 1..MaxTs
MaxUserRecords == 2   \* records per kind in a store of the user inputs

\* ------------------------------------------------------------- data types
REPLCommandKind == "REPLCommand"
EditorContentKind == "EditorContent"
ErrorInstanceKind == "Error"

REPLCommand(uid, ts, command) ==
    [uid |-> uid, timestamp |-> ts, command |-> command]

EditorContent(uid, ts, content) ==
    [uid |-> uid, timestamp |-> ts, content |-> content]

ErrorInstance(uid, ts, description) ==
    [uid |-> uid, timestamp |-> ts, description |-> description]

\* A string built of words: the words joined by single spaces.
RECURSIVE Text(_)
Text(words) ==
    IF words = <<>> THEN ""
    ELSE IF Len(words) = 1 THEN words[1]
    ELSE words[1] \o " " \o Text(Tail(words))

\* ------------------------------------------------------------------ events
errorEvent(instance) == [type |-> "errorEvent", data |-> instance]
replEvent(cmd) == [type |-> "replEvent", data |-> cmd]
editorEvent(content) == [type |-> "editorEvent", data |-> content]

getTimestamp(e) == e.data.timestamp

RECURSIVE IndentLines(_)
IndentLines(lines) ==
    IF lines = <<>> THEN ""
    ELSE "    " \o lines[1] \o "\n" \o IndentLines(Tail(lines))

\* event.String(); an editor's content is held as strings.Split(Content, "\n").
String(e) ==
    CASE e.type = "errorEvent" -> "Error: " \o Text(e.data.description)
      [] e.type = "replEvent" -> "REPL : " \o e.data.command
      [] e.type = "editorEvent" -> "Editor:\n" \o IndentLines(e.data.content)

\* ------------------------------------------------------------------ helpers
Range(s) == {s[i] : i \in 1..Len(s)}

BoundedSeq(S, n) == UNION {[1..k -> S] : k \in 0..n}

RECURSIVE SumOver(_, _)
SumOver(m, keys) ==
    IF keys = {} THEN 0
    ELSE LET k == CHOOSE x \in keys : TRUE
         IN  m[k] + SumOver(m, keys \ {k})

\* A Go map is held as a function on its keys.
EmptyMap == <<>>
Increment(m, key) ==
    [k \in DOMAIN m \cup {key} |->
        IF k \in DOMAIN m THEN (IF k = key THEN m[k] + 1 ELSE m[k]) ELSE 1]

\* The orders in which a range over a Go map may visit its keys.
RangeOrders(keys) ==
    IF keys = {} THEN {<<>>}
    ELSE LET n == Cardinality(keys)
         IN  {q \in [1..n -> keys] : \A i, j \in 1..n : i # j => q[i] # q[j]}

\* The orders of the indices in `left` in which no index is less than one
\* before it: each is led by an index that none of the others is less than.
RECURSIVE SortedOrders(_, _)
SortedOrders(left, less) ==
    IF left = {} THEN {<<>>}
    ELSE UNION {{<<i>> \o rest : rest \in SortedOrders(left \ {i}, less)} :
                    i \in {k \in left : \A j \in left : ~less[j][k]}}

\* sort.Slice(s, less): a permutation of s in which no element is less than
\* one before it.  less[i][j] is the comparator on the elements s[i] and s[j].
\* The order of elements that less ties is the sort's choice.
SortSlice(s, less) ==
    {[i \in 1..Len(s) |-> s[p[i]]] : p \in SortedOrders(1..Len(s), less)}

\* ------------------------------------------------------------ the Datastore
\* client.GetAll(query.Filter("UID =", uid)) when it succeeds.
Filter(store, uid) == SelectSeq(store, LAMBDA r : r.uid = uid)

\* client.Count(query.Filter("UID =", uid)) when it succeeds.
Count(store, uid) == Len(Filter(store, uid))

\* One entry of queryLog.
Issued(op, kind, uid, ok) == [op |-> op, kind |-> kind, uid |-> uid, ok |-> ok]
AllUsers == "*"

\* ------------------------------------------------------- regular expressions
\* The elements of a pattern, each matching one word of the text.
Lit(w) == [is |-> "literal", word |-> w]
NonSpace == [is |-> "nonspace", word |-> ""]       \* ([^\s]+)
NonSpaceComma == [is |-> "nonspace,", word |-> ""] \* ([^\s]+),
AnyChar == [is |-> "char", word |-> ""]            \* (.)
Quoted == [is |-> "quoted", word |-> ""]           \* '(.*)'

\* The words of the vocabulary that have a given shape.
QuotedWords == {"'f'"}
CommaWords == {"Number,"}
OneCharWords == {"+", "x", "y", "a"}

ElemMatches(el, w) ==
    CASE el.is = "literal" -> w = el.word
      [] el.is = "nonspace" -> TRUE
      [] el.is = "nonspace," -> w \in CommaWords
      [] el.is = "char" -> w \in OneCharWords
      [] el.is = "quoted" -> w \in QuotedWords

MatchesAt(pattern, words, i) ==
    /\ i + Len(pattern) - 1 <= Len(words)
    /\ \A k \in 1..Len(pattern) : ElemMatches(pattern[k], words[i + k - 1])

\* (*regexp.Regexp).MatchString
MatchString(pattern, words) ==
    \E i \in 1..Len(words) : MatchesAt(pattern, words, i)

\* (*regexp.Regexp).FindString: the text of the leftmost match, "" when none.
FindString(pattern, words) ==
    IF MatchString(pattern, words)
    THEN LET i == CHOOSE k \in 1..Len(words) :
                      /\ MatchesAt(pattern, words, k)
                      /\ \A l \in 1..(k - 1) : ~MatchesAt(pattern, words, l)
         IN  Text(SubSeq(words, i, i + Len(pattern) - 1))
    ELSE ""

\* The keys of errPatterns in the order the map literal lists them.
errPatternNames ==
    <<"UnknownCallable", "VariableHasNoValue", "InvalidNumberOfArgs",
      "CallableMustBeSymbol", "NoSwitchWithID", "PropellantGenerator",
      "LightGenerator", "NoThrusterWithID", "ArugmentMustBeOfType",
      "TooManyArguments", "ArgsMustBeNumbers">>

errPatterns ==
    [UnknownCallable |-> <<Lit("Unknown"), Lit("callable"), Quoted>>,
     VariableHasNoValue |->
        <<Lit("Variable"), NonSpace, Lit("has"), Lit("no"), Lit("value")>>,
     InvalidNumberOfArgs |->
        <<Lit("Invalid"), Lit("number"), Lit("of"), Lit("args")>>,
     CallableMustBeSymbol |->
        <<Lit("Callable"), Lit("name"), Lit("must"), Lit("be"), Lit("a"),
          Lit("symbol")>>,
     NoSwitchWithID |->
        <<Lit("No"), Lit("such"), Lit("switch"), Lit("with"), Lit("ID"),
          NonSpace, Lit("exists")>>,
     PropellantGenerator |->
        <<Lit("Propellant"), Lit("cannot"), Lit("be"), Lit("powered"),
          Lit("with"), Lit("backup"), Lit("generator")>>,
     LightGenerator |->
        <<Lit("Light"), Lit("cannot"), Lit("be"), Lit("powered"),
          Lit("with"), Lit("backup"), Lit("generator")>>,
     NoThrusterWithID |->
        <<Lit("No"), Lit("thruster"), Lit("with"), Lit("ID"), NonSpace,
          Lit("exists")>>,
     ArugmentMustBeOfType |->
        <<Lit("Argument"), NonSpace, Lit("must"), Lit("be"), Lit("of"),
          Lit("type"), NonSpaceComma, Lit("got"), NonSpace>>,
     TooManyArguments |-> <<Lit("Too"), Lit("many"), Lit("arguments")>>,
     ArgsMustBeNumbers |->
        <<Lit("All"), Lit("arguments"), Lit("to"), AnyChar, Lit("must"),
          Lit("be"), Lit("numbers")>>]

\* The patterns that match a description.
Matching(description) ==
    {name \in DOMAIN errPatterns : MatchString(errPatterns[name], description)}

\* ------------------------------------------------------------------ session
\* session{}: the zero value newSession returns beside an error.
EmptySession == [uid |-> "", events |-> <<>>]

\* newSession returning what it has built so far beside the error.
PartialSession(partial) == partial

\* What newSession returns when a query fails, having built `partial` so far.
FailedSession(partial) == EmptySession

\* The comparator of newSession with its operands swapped.
TimestampGreater(a, b) == getTimestamp(b) < getTimestamp(a)

\* The comparator newSession hands to sort.Slice.
TimestampLess(a, b) == getTimestamp(a) < getTimestamp(b)

\* sess.events after the three appends, before the sort.
Fetched(uid) ==
    [i \in 1..Len(Filter(errorStore, uid)) |->
        errorEvent(Filter(errorStore, uid)[i])]
    \o [i \in 1..Len(Filter(commandStore, uid)) |->
        replEvent(Filter(commandStore, uid)[i])]
    \o [i \in 1..Len(Filter(editorStore, uid)) |->
        editorEvent(Filter(editorStore, uid)[i])]

\* The results of newSession(ctx, client, uid): the session, the error and
\* the queries issued.  Each of the three GetAll calls may fail.
NewSessionResults(uid) ==
    LET errorInstances == Filter(errorStore, uid)
        replCommands == Filter(commandStore, uid)
        q(kind, ok) == Issued("GetAll", kind, uid, ok)
        afterErrors ==
            [uid |-> uid,
             events |-> [i \in 1..Len(errorInstances) |->
                            errorEvent(errorInstances[i])]]
        afterCommands ==
            [uid |-> uid,
             events |-> afterErrors.events
                        \o [i \in 1..Len(replCommands) |->
                               replEvent(replCommands[i])]]
        all == Fetched(uid)
        less == [i \in 1..Len(all) |->
                    [j \in 1..Len(all) |-> TimestampLess(all[i], all[j])]]
    IN  {[sess |-> FailedSession([uid |-> uid, events |-> <<>>]),
          err |-> "fetch failed",
          log |-> <<q(ErrorInstanceKind, FALSE)>>],
         [sess |-> FailedSession(afterErrors),
          err |-> "fetch failed",
          log |-> <<q(ErrorInstanceKind, TRUE), q(REPLCommandKind, FALSE)>>],
         [sess |-> FailedSession(afterCommands),
          err |-> "fetch failed",
          log |-> <<q(ErrorInstanceKind, TRUE), q(REPLCommandKind, TRUE),
                    q(EditorContentKind, FALSE)>>]}
        \cup
        {[sess |-> [uid |-> uid, events |-> sorted],
          err |-> "nil",
          log |-> <<q(ErrorInstanceKind, TRUE), q(REPLCommandKind, TRUE),
                    q(EditorContentKind, TRUE)>>] :
            sorted \in SortSlice(all, less)}

\* commandAndError{cmd, err}: err is a pointer, held as <<>> (nil) or <<e>>.
commandAndError(cmd, err) == [cmd |-> cmd, err |-> err]

\* The loop of session.commandAndErrors from event i on.  lastCmd is a
\* pointer, held as <<>> (nil) or <<c>>; dereferencing nil panics.
RECURSIVE ScanEvents(_, _, _, _)
ScanEvents(events, i, output, lastCmd) ==
    IF i > Len(events) THEN [status |-> "returned", output |-> output]
    ELSE IF events[i].type = "replEvent"
    THEN ScanEvents(events, i + 1,
                    IF lastCmd # <<>>
                    THEN Append(output, commandAndError(lastCmd[1], <<>>))
                    ELSE output,
                    <<events[i].data>>)
    ELSE IF events[i].type = "errorEvent"
    THEN IF lastCmd = <<>>
         THEN [status |-> "panic", output |-> <<>>]
         ELSE ScanEvents(events, i + 1,
                         Append(output,
                                commandAndError(lastCmd[1], <<events[i].data>>)),
                         <<>>)
    ELSE ScanEvents(events, i + 1, output, lastCmd)

commandAndErrors(u) == ScanEvents(u.events, 1, <<>>, <<>>)

\* -------------------------------------------------------------- aggregation
\* The range over errPatterns without its break: every matching pattern is
\* counted.
RECURSIVE IncrementAll(_, _)
IncrementAll(cnt, names) ==
    IF names = {} THEN cnt
    ELSE LET name == CHOOSE x \in names : TRUE
         IN  IncrementAll(Increment(cnt, name), names \ {name})

RangeErrPatternsNoBreak(cnt, description) ==
    {IncrementAll(cnt, Matching(description))}

\* The range over errPatterns for one error instance: the first pattern the
\* range visits that matches is counted, and the range is left.
RangeErrPatterns(cnt, description) ==
    IF Matching(description) = {} THEN {cnt}
    ELSE {Increment(cnt, name) : name \in Matching(description)}

\* The values matchCnt may have after the first n error instances.
RECURSIVE MatchCounts(_, _)
MatchCounts(errorInstances, n) ==
    IF n = 0 THEN {EmptyMap}
    ELSE UNION {RangeErrPatterns(cnt, errorInstances[n].description) :
                    cnt \in MatchCounts(errorInstances, n - 1)}

\* instanceCnt after the first n error instances.
RECURSIVE InstanceCnt(_, _)
InstanceCnt(errorInstances, n) ==
    IF n = 0 THEN EmptyMap
    ELSE LET variable == FindString(errPatterns["VariableHasNoValue"],
                                    errorInstances[n].description)
             before == InstanceCnt(errorInstances, n - 1)
         IN  IF variable # "" THEN Increment(before, variable) ELSE before

variableHasNoValueInfo(variable, count) ==
    [variable |-> variable, count |-> count]

\* The comparator of variableHasNoValueCount without the reversal.
RankingAscending(a, b) == a.count < b.count

\* The comparator variableHasNoValueCount hands to sort.Slice.
RankingLess(a, b) == a.count > b.count

\* The slices variableHasNoValueCount may return: the entries of instanceCnt
\* in the order the range visits them, then sorted.
Rankings(errorInstances) ==
    LET instanceCnt == InstanceCnt(errorInstances, Len(errorInstances))
        n == Cardinality(DOMAIN instanceCnt)
        appended ==
            {[i \in 1..n |-> variableHasNoValueInfo(q[i], instanceCnt[q[i]])] :
                q \in RangeOrders(DOMAIN instanceCnt)}
        less(s) == [i \in 1..n |-> [j \in 1..n |-> RankingLess(s[i], s[j])]]
    IN  UNION {SortSlice(s, less(s)) : s \in appended}

\* getUIDs appending every command's UID, without the set.
UIDListsNoSet(replCommands) ==
    {[i \in 1..Len(replCommands) |-> replCommands[i].uid]}

\* The slices getUIDs may return: the keys of the set, in the range's order.
UIDLists(replCommands) ==
    RangeOrders({replCommands[i].uid : i \in 1..Len(replCommands)})

\* usedEditorCount after the first n uids.
RECURSIVE UsedEditorCount(_, _)
UsedEditorCount(list, n) ==
    IF n = 0 THEN 0
    ELSE UsedEditorCount(list, n - 1)
         + (IF Count(editorStore, list[n]) > 0 THEN 1 ELSE 0)

\* What editorUse returns when the Count query fails, having counted `count`.
FailedCount(count) == 0

\* The results of editorUse(ctx, client, list): the Count for any uid may fail.
EditorUseResults(list) ==
    LET q(i, ok) == Issued("Count", EditorContentKind, list[i], ok)
    IN  {[count |-> FailedCount(UsedEditorCount(list, k - 1)),
          err |-> "fetch failed",
          log |-> [i \in 1..k |-> q(i, i < k)]] : k \in 1..Len(list)}
        \cup
        {[count |-> UsedEditorCount(list, Len(list)),
          err |-> "nil",
          log |-> [i \in 1..Len(list) |-> q(i, TRUE)]]}

\* ------------------------------------------------------------------- inputs
UIDs == {"u1", "u2"}

\* Error descriptions: one pattern, the same pattern with another variable,
\* two patterns at once, no pattern.
Descriptions ==
    {<<"Variable", "x", "has", "no", "value">>,
     <<"Variable", "y", "has", "no", "value">>,
     <<"Too", "many", "arguments">>,
     <<"Invalid", "number", "of", "args", "Too", "many", "arguments">>,
     <<"Too", "many", "arguments", "Variable", "x", "has", "no", "value">>,
     <<"Unknown", "callable", "'f'">>,
     <<"a", "completely", "unrelated", "failure">>}

Store(errors, commands, editors) ==
    [errors |-> errors, commands |-> commands, editors |-> editors]

\* Stores whose error records differ in their descriptions.
AggregationStores ==
    {Store(errors, <<>>, <<>>) :
        errors \in BoundedSeq({ErrorInstance("u1", 1, d) : d \in Descriptions},
                              MaxErrors)}

\* Stores holding ne errors, nc commands and nd editor saves of one user,
\* with any timestamps.
SessionStoresOf(ne, nc, nd) ==
    {Store([i \in 1..ne |-> ErrorInstance("u1", te[i],
                                          <<"failure", ToString(i)>>)],
           [i \in 1..nc |-> REPLCommand("u1", tc[i],
                                        "(cmd " \o ToString(i) \o ")")],
           [i \in 1..nd |-> EditorContent("u1", td[i],
                                          <<"(def", ToString(i) \o ")">>)]) :
        te \in [1..ne -> 1..MaxTs], tc \in [1..nc -> 1..MaxTs],
        td \in [1..nd -> 1..MaxTs]}

SessionStores ==
    UNION {SessionStoresOf(n[1], n[2], n[3]) :
            n \in {m \in (0..MaxEvents) \X (0..MaxEvents) \X (0..MaxEvents) :
                      m[1] + m[2] + m[3] <= MaxEvents}}

\* Stores whose records differ in their users; the k-th record of each kind
\* is stamped in the k-th round of error, command, editor save.
UserStores ==
    {Store([i \in 1..Len(eu) |-> ErrorInstance(eu[i], 3 * i - 2, <<"failure">>)],
           [i \in 1..Len(cu) |-> REPLCommand(cu[i], 3 * i - 1, "(cmd)")],
           [i \in 1..Len(du) |-> EditorContent(du[i], 3 * i, <<"(def)">>)]) :
        eu \in BoundedSeq(UIDs, MaxUserRecords),
        cu \in BoundedSeq(UIDs, MaxUserRecords),
        du \in BoundedSeq(UIDs, MaxUserRecords)}

Stores == AggregationStores \cup SessionStores \cup UserStores

\* ------------------------------------------------------------------ actions
NoPairs == [status |-> "not called", output |-> <<>>]
NoRanking == [returned |-> FALSE, value |-> <<>>]

Init ==
    /\ \E s \in Stores :
        /\ errorStore = s.errors
        /\ commandStore = s.commands
        /\ editorStore = s.editors
    /\ pc = "start"
    /\ call = ""
    /\ queryLog = <<>>
    /\ lastErr = "nil"
    /\ matchCnt = EmptyMap
    /\ varsWithNoValue = <<>>
    /\ uids = <<>>
    /\ editorUseCount = 0
    /\ idx = 0
    /\ sess = EmptySession
    /\ file = <<>>
    /\ pairs = NoPairs
    /\ lastRanking = NoRanking

stores == <<errorStore, commandStore, editorStore>>

\* main: matchCnt, err := errorTypeCount(ctx, client); panic on an error.
ErrorTypeCount ==
    /\ pc = "start"
    /\ call' = "errorTypeCount"
    /\ \/ /\ queryLog' = <<Issued("GetAll", ErrorInstanceKind, AllUsers, FALSE)>>
          /\ lastErr' = "getting instances: fetch failed"
          /\ matchCnt' = EmptyMap
          /\ pc' = "panic"
       \/ /\ queryLog' = <<Issued("GetAll", ErrorInstanceKind, AllUsers, TRUE)>>
          /\ lastErr' = "nil"
          /\ \E cnt \in MatchCounts(errorStore, Len(errorStore)) :
                matchCnt' = cnt
          /\ pc' = "create"
    /\ UNCHANGED <<stores, varsWithNoValue, uids, editorUseCount, idx, sess,
                   file, pairs, lastRanking>>

\* main: file, err := os.Create("user-sessions.txt"); panic on an error.
CreateFile ==
    /\ pc = "create"
    /\ call' = "os.Create"
    /\ queryLog' = <<>>
    /\ \/ /\ lastErr' = "create failed"
          /\ pc' = "panic"
       \/ /\ lastErr' = "nil"
          /\ pc' = "variableHasNoValueCount"
    /\ file' = <<>>
    /\ UNCHANGED <<stores, matchCnt, varsWithNoValue, uids, editorUseCount,
                   idx, sess, pairs, lastRanking>>

\* main: varsWithNoValue, err := variableHasNoValueCount(ctx, client).
VariableHasNoValueCount ==
    /\ pc = "variableHasNoValueCount"
    /\ call' = "variableHasNoValueCount"
    /\ \/ /\ queryLog' = <<Issued("GetAll", ErrorInstanceKind, AllUsers, FALSE)>>
          /\ lastErr' = "getting instances: fetch failed"
          /\ varsWithNoValue' = <<>>
          /\ pc' = "panic"
          /\ UNCHANGED lastRanking
       \/ /\ queryLog' = <<Issued("GetAll", ErrorInstanceKind, AllUsers, TRUE)>>
          /\ lastErr' = "nil"
          /\ \E sorted \in Rankings(errorStore) :
                /\ varsWithNoValue' = sorted
                /\ lastRanking' = [returned |-> TRUE, value |-> sorted]
          /\ pc' = "getUIDs"
    /\ UNCHANGED <<stores, matchCnt, uids, editorUseCount, idx, sess, file,
                   pairs>>

\* main: uids, err := getUIDs(ctx, client).
GetUIDs ==
    /\ pc = "getUIDs"
    /\ call' = "getUIDs"
    /\ \/ /\ queryLog' = <<Issued("GetAll", REPLCommandKind, AllUsers, FALSE)>>
          /\ lastErr' = "getting REPL instances: fetch failed"
          /\ uids' = <<>>
          /\ pc' = "panic"
       \/ /\ queryLog' = <<Issued("GetAll", REPLCommandKind, AllUsers, TRUE)>>
          /\ lastErr' = "nil"
          /\ \E output \in UIDLists(commandStore) : uids' = output
          /\ pc' = "editorUse"
    /\ UNCHANGED <<stores, matchCnt, varsWithNoValue, editorUseCount, idx,
                   sess, file, pairs, lastRanking>>

\* main: editorUseCount, err := editorUse(ctx, client, uids).
EditorUse ==
    /\ pc = "editorUse"
    /\ call' = "editorUse"
    /\ \E r \in EditorUseResults(uids) :
        /\ queryLog' = r.log
        /\ lastErr' = r.err
        /\ editorUseCount' = r.count
        /\ pc' = IF r.err = "nil" THEN "sessions" ELSE "panic"
        /\ idx' = IF r.err = "nil" THEN 1 ELSE idx
    /\ UNCHANGED <<stores, matchCnt, varsWithNoValue, uids, sess, file, pairs,
                   lastRanking>>

\* main: one turn of the range over uids: newSession, then the session's
\* events written to the file.
WriteSession ==
    /\ pc = "sessions"
    /\ idx <= Len(uids)
    /\ call' = "newSession"
    /\ \E r \in NewSessionResults(uids[idx]) :
        /\ queryLog' = r.log
        /\ lastErr' = r.err
        /\ sess' = r.sess
        /\ IF r.err = "nil"
           THEN /\ file' = file \o [i \in 1..Len(r.sess.events) |->
                                       String(r.sess.events[i]) \o "\n"]
                /\ idx' = idx + 1
                /\ pc' = pc
           ELSE /\ pc' = "panic"
                /\ UNCHANGED <<file, idx>>
    /\ UNCHANGED <<stores, matchCnt, varsWithNoValue, uids, editorUseCount,
                   pairs, lastRanking>>

\* main: the range over uids is over.
Finish ==
    /\ pc = "sessions"
    /\ idx > Len(uids)
    /\ pc' = "done"
    /\ UNCHANGED <<stores, call, queryLog, lastErr, matchCnt, varsWithNoValue,
                   uids, editorUseCount, idx, sess, file, pairs, lastRanking>>

\* newSession(ctx, client, uid) called for any user id.
NewSession(uid) ==
    /\ pc = "start"
    /\ call' = "newSession"
    /\ \E r \in NewSessionResults(uid) :
        /\ queryLog' = r.log
        /\ lastErr' = r.err
        /\ sess' = r.sess
    /\ pc' = "session"
    /\ UNCHANGED <<stores, matchCnt, varsWithNoValue, uids, editorUseCount,
                   idx, file, pairs, lastRanking>>

\* sess.commandAndErrors() on a session newSession returned.
CommandAndErrors ==
    /\ pc = "session"
    /\ lastErr = "nil"
    /\ call' = "commandAndErrors"
    /\ queryLog' = <<>>
    /\ pairs' = commandAndErrors(sess)
    /\ pc' = IF pairs'.status = "panic" THEN "panic" ELSE "paired"
    /\ UNCHANGED <<stores, lastErr, matchCnt, varsWithNoValue, uids,
                   editorUseCount, idx, sess, file, lastRanking>>

\* The program is run again on the same store.
Rerun ==
    /\ pc \in {"done", "panic", "session", "paired"}
    /\ pc' = "start"
    /\ call' = ""
    /\ queryLog' = <<>>
    /\ lastErr' = "nil"
    /\ matchCnt' = EmptyMap
    /\ varsWithNoValue' = <<>>
    /\ uids' = <<>>
    /\ editorUseCount' = 0
    /\ idx' = 0
    /\ sess' = EmptySession
    /\ file' = <<>>
    /\ pairs' = NoPairs
    /\ UNCHANGED <<stores, lastRanking>>

Next ==
    \/ ErrorTypeCount
    \/ CreateFile
    \/ VariableHasNoValueCount
    \/ GetUIDs
    \/ EditorUse
    \/ WriteSession
    \/ Finish
    \/ \E uid \in UIDs : NewSession(uid)
    \/ CommandAndErrors
    \/ Rerun

Spec == Init /\ [][Next]_vars

\* ------------------------------------------------------------------- claims
Occurrences(s, e) == Cardinality({i \in 1..Len(s) : s[i] = e})

SameElements(s, t) ==
    /\ Len(s) = Len(t)
    /\ \A e \in Range(s) \cup Range(t) : Occurrences(s, e) = Occurrences(t, e)

NoDuplicates(s) == \A i, j \in 1..Len(s) : i # j => s[i] # s[j]

\* newSession has returned a session and no error (sess is that session).
SessionReturned ==
    /\ call \in {"newSession", "commandAndErrors"}
    /\ lastErr = "nil"

\* The log of a function that stopped at its first failed query: the failed
\* query is the last one, and no query was issued twice.
StoppedAtFailure(log) ==
    /\ log # <<>>
    /\ ~log[Len(log)].ok
    /\ \A i \in 1..(Len(log) - 1) : log[i].ok
    /\ \A i, j \in 1..Len(log) :
          i # j => <<log[i].kind, log[i].uid>> # <<log[j].kind, log[j].uid>>

\* C1: a session newSession returns without an error holds exactly the
\* records the store returned for that user, each once, ordered so that no
\* event's timestamp exceeds the next one's; with no records it is empty;
\* and newSession returns an error only when one of its queries failed.
C1_SessionCompleteAndOrdered ==
    /\ SessionReturned =>
          /\ sess.uid \in UIDs
          /\ SameElements(sess.events, Fetched(sess.uid))
          /\ \A i \in 1..(Len(sess.events) - 1) :
                getTimestamp(sess.events[i]) <= getTimestamp(sess.events[i + 1])
          /\ (Fetched(sess.uid) = <<>> => sess.events = <<>>)
    /\ (call = "newSession" /\ lastErr # "nil") =>
          \E i \in 1..Len(queryLog) : ~queryLog[i].ok

\* C1 witness: a session of three events of the three kinds that the store
\* returned out of timestamp order.
C1_Witness ==
    /\ SessionReturned
    /\ Len(sess.events) = 3
    /\ {sess.events[i].type : i \in 1..3} =
          {"errorEvent", "replEvent", "editorEvent"}
    /\ sess.events # Fetched(sess.uid)
    /\ getTimestamp(sess.events[1]) < getTimestamp(sess.events[3])

\* C1, second case: newSession for a user without records returned an empty
\* session and no error.
C1_EmptyWitness ==
    /\ call = "newSession"
    /\ lastErr = "nil"
    /\ sess.uid \in UIDs
    /\ sess.events = <<>>
    /\ Len(errorStore) + Len(commandStore) + Len(editorStore) > 0

\* The place of an event in the sequence newSession fetched.
FetchIndex(uid, e) == CHOOSE k \in 1..Len(Fetched(uid)) : Fetched(uid)[k] = e

\* C8: events of a session with equal timestamps are in the order newSession
\* fetched them (errors, then commands, then editor saves).
C8_TiesInFetchOrder ==
    SessionReturned =>
        \A i, j \in 1..Len(sess.events) :
            (/\ i < j
             /\ getTimestamp(sess.events[i]) = getTimestamp(sess.events[j]))
            => FetchIndex(sess.uid, sess.events[i])
                  < FetchIndex(sess.uid, sess.events[j])

\* C2: commandAndErrors returns on every session, and every error event of
\* the session is in a pair of its output (an error reached with no command
\* pending included).
C2_EveryErrorPaired ==
    call = "commandAndErrors" =>
        /\ pairs.status = "returned"
        /\ \A i \in 1..Len(sess.events) :
              sess.events[i].type = "errorEvent" =>
                  \E k \in 1..Len(pairs.output) :
                      pairs.output[k].err = <<sess.events[i].data>>

\* The places after i of the events that are not editor saves.
LaterNonEditor(events, i) ==
    {j \in (i + 1)..Len(events) : events[j].type # "editorEvent"}

Min(S) == CHOOSE x \in S : \A y \in S : x <= y

\* The pairs of the commands among the first n events: one for each command
\* that a later command or error follows, with that error or with no error.
RECURSIVE PairsOfCommands(_, _)
PairsOfCommands(events, n) ==
    IF n = 0 THEN <<>>
    ELSE IF /\ events[n].type = "replEvent"
            /\ LaterNonEditor(events, n) # {}
    THEN LET next == events[Min(LaterNonEditor(events, n))]
         IN  Append(PairsOfCommands(events, n - 1),
                    commandAndError(events[n].data,
                                    IF next.type = "errorEvent"
                                    THEN <<next.data>> ELSE <<>>))
    ELSE PairsOfCommands(events, n - 1)

\* C3: the output of commandAndErrors is, in timeline order, one pair for
\* each command whose next non-editor event exists, with that event when it
\* is an error and with no error when it is a command.
C3_OnePairPerFollowedCommand ==
    call = "commandAndErrors" =>
        pairs.output = PairsOfCommands(sess.events, Len(sess.events))

\* matchCnt when every error is counted under the first pattern, in the
\* order of the table, that matches it.
FirstMatch(description) ==
    errPatternNames[Min({k \in 1..Len(errPatternNames) :
                            errPatternNames[k] \in Matching(description)})]

RECURSIVE TableOrderCounts(_, _)
TableOrderCounts(errorInstances, n) ==
    IF n = 0 THEN EmptyMap
    ELSE IF Matching(errorInstances[n].description) = {}
    THEN TableOrderCounts(errorInstances, n - 1)
    ELSE Increment(TableOrderCounts(errorInstances, n - 1),
                   FirstMatch(errorInstances[n].description))

ErrorsCounted ==
    /\ call = "errorTypeCount"
    /\ lastErr = "nil"

\* C4: errorTypeCount counts every error under the earliest pattern of the
\* table that matches its description.
C4_EarliestPatternCounted ==
    ErrorsCounted => matchCnt = TableOrderCounts(errorStore, Len(errorStore))

\* C5: the buckets of errorTypeCount are names of patterns, their counts add
\* up to the number of errors that match some pattern, and no bucket holds
\* more than the errors that match its pattern.
C5_OneBucketPerMatchedError ==
    ErrorsCounted =>
        /\ DOMAIN matchCnt \subseteq Range(errPatternNames)
        /\ SumOver(matchCnt, DOMAIN matchCnt) =
              Cardinality({i \in 1..Len(errorStore) :
                              Matching(errorStore[i].description) # {}})
        /\ \A name \in DOMAIN matchCnt :
              /\ matchCnt[name] >= 1
              /\ matchCnt[name] <=
                    Cardinality({i \in 1..Len(errorStore) :
                        name \in Matching(errorStore[i].description)})

\* C5 witness: errors counted from a store holding an error that matches no
\* pattern, one that matches two and one that matches one.
C5_Witness ==
    /\ ErrorsCounted
    /\ \E i, j, k \in 1..Len(errorStore) :
          /\ Matching(errorStore[i].description) = {}
          /\ Cardinality(Matching(errorStore[j].description)) = 2
          /\ Cardinality(Matching(errorStore[k].description)) = 1
    /\ SumOver(matchCnt, DOMAIN matchCnt) = 2

\* The key variableHasNoValueCount extracts from the i-th error ("": none).
ExtractedKey(i) ==
    FindString(errPatterns["VariableHasNoValue"], errorStore[i].description)

RankingReturned ==
    /\ call = "variableHasNoValueCount"
    /\ lastErr = "nil"

\* C6: the ranking has one entry per distinct extracted key, counting the
\* errors that yield the key, and no entry's count is below the next one's.
C6_RankingCountsAndOrder ==
    RankingReturned =>
        /\ NoDuplicates([i \in 1..Len(varsWithNoValue) |->
                            varsWithNoValue[i].variable])
        /\ {varsWithNoValue[i].variable : i \in 1..Len(varsWithNoValue)} =
              {ExtractedKey(i) : i \in 1..Len(errorStore)} \ {""}
        /\ \A i \in 1..Len(varsWithNoValue) :
              varsWithNoValue[i].count =
                  Cardinality({k \in 1..Len(errorStore) :
                      ExtractedKey(k) = varsWithNoValue[i].variable})
        /\ \A i \in 1..(Len(varsWithNoValue) - 1) :
              varsWithNoValue[i].count >= varsWithNoValue[i + 1].count

\* C6 witness: a ranking of two keys with different counts, the rarer key
\* met first in the store, and an error without a key.
C6_Witness ==
    /\ RankingReturned
    /\ Len(varsWithNoValue) = 2
    /\ varsWithNoValue[1].count = 2
    /\ varsWithNoValue[2].count = 1
    /\ ExtractedKey(1) = varsWithNoValue[2].variable

\* C7: a call of variableHasNoValueCount returns the sequence the call
\* before it returned on the same store.
C7_RankingRepeats ==
    [][(lastRanking.returned /\ lastRanking'.returned)
          => lastRanking'.value = lastRanking.value]_vars

\* The users that have a command record.
CommandUIDs == {commandStore[i].uid : i \in 1..Len(commandStore)}

Records(uid) ==
    Len(Filter(errorStore, uid)) + Len(Filter(commandStore, uid))
        + Len(Filter(editorStore, uid))

RECURSIVE SumRecords(_)
SumRecords(users) ==
    IF users = {} THEN 0
    ELSE LET u == CHOOSE x \in users : TRUE
         IN  Records(u) + SumRecords(users \ {u})

C10_FailureAborts ==
    /\ (call = "newSession" /\ lastErr # "nil") =>
          /\ sess = EmptySession
          /\ StoppedAtFailure(queryLog)
          /\ pc \in {"panic", "session"}
    /\ (call = "editorUse" /\ lastErr # "nil") =>
          /\ editorUseCount = 0
          /\ StoppedAtFailure(queryLog)
          /\ pc = "panic"

\* C10 witness: newSession failed at its third query after the first two
\* returned records.
C10_Witness ==
    /\ call = "newSession"
    /\ lastErr # "nil"
    /\ Len(queryLog) = 3
    /\ Filter(errorStore, queryLog[1].uid) # <<>>
    /\ Filter(commandStore, queryLog[1].uid) # <<>>

\* C10, second case: editorUse failed at its second Count after the first
\* user was found to have used the editor.
C10_EditorUseWitness ==
    /\ call = "editorUse"
    /\ lastErr # "nil"
    /\ Len(queryLog) = 2
    /\ Count(editorStore, queryLog[1].uid) > 0
====
